---- MODULE Spec2Model ----
(***************************************************************************)
(* Model of the llmdebate orchestration core: runCLI, estimateRounds,      *)
(* runDebateFlow, trimHistory, runSingleRound and summarizeDebate.         *)
(*                                                                         *)
(* The repository holds two variants of the program.  variant = "split"    *)
(* is src/unnamed/part_000 (Generate takes a system and a prompt field,    *)
(* the stored history is kept whole and a trimmed view is built per        *)
(* round); variant = "joined" is src/main.go (one prompt field, the        *)
(* history itself is trimmed in place).                                    *)
(*                                                                         *)
(* Environment assumption: writes to standard output (logDebate,           *)
(* fmt.Printf) succeed, so the error returns that only a failed write to   *)
(* standard output can take are not modelled.  Likewise the progress bar's  *)
(* writes (progress.Add, progress.Finish) succeed, so the panics that only  *)
(* a failed write of the bar can raise are not modelled.                    *)
(*                                                                         *)
(* OllamaClient.Generate of part_000 is modelled on its own as two         *)
(* processes, the caller and the progress goroutine, that meet on the      *)
(* unbuffered progress channel.                                            *)
(***************************************************************************)
EXTENDS Integers, Sequences, FiniteSets, TLC

VARIABLES
    variant,        \* which source file is running: "split" or "joined"
    entry,          \* "runCLI" (the program) or "runDebateFlow" (called directly, as the tests do)
    client,         \* the LLMClient implementation: "OllamaClient" or "fakeLLM"
    maxHistory,     \* the value of the constant MaxHistory in this build
    flags,          \* command-line flags: [input, output, rounds, duration]
    inputReadable,  \* whether os.ReadFile of the input path succeeds
    clientEnvOK,    \* whether api.ClientFromEnvironment succeeds
    pc,             \* control position
    phase,          \* who called runDebateFlow: "estimate", "debate", "direct", or "none"
    cfgRounds,      \* config.Rounds of runCLI
    inputLoaded,    \* loadInput has returned the claim
    n,              \* config.Rounds of the running runDebateFlow call
    i,              \* loop counter of runDebateFlow
    history,        \* runDebateFlow's history slice
    tempHistory,    \* runDebateFlow's tempHistory slice (split variant)
    chal,           \* the Challenger text of the current iteration
    rounds,         \* runDebateFlow's local rounds slice
    ret,            \* return value of the last runDebateFlow call: [rounds, err]
    calls,          \* every LLMClient.Generate call issued so far, in order
    elapsed,        \* the trial round's measured time, in milliseconds
    report,         \* summarizeDebate's result
    outputWrites,   \* contents handed to os.WriteFile(config.OutputFile), in order
    err,            \* runCLI's returned error (Nil while running or on success)
    trimIn,         \* trimHistory called on its own: the history argument
    trimMax,        \* trimHistory called on its own: the max argument
    trimOut,        \* trimHistory called on its own: [done, result] of the call, and
                    \* [twice, again] of a second call on the result
    chunks,         \* OllamaClient.Generate: the chunks the port streams, in order
    portErr,        \* OllamaClient.Generate: the error Client.Generate ends with (Nil if none)
    genPc,          \* OllamaClient.Generate: position of the calling goroutine
    progPc,         \* OllamaClient.Generate: position of the progress goroutine
    streamPos,      \* number of chunks the port has handed to the callback
    result,         \* GenerateWithChannel's result string, as a sequence of characters
    resultCount,    \* GenerateWithChannel's resultCount
    channel,        \* the progress channel: [closed, log of operations performed on it]
    progress,       \* number of progress.Add(1) calls made
    genRet          \* what OllamaClient.Generate returned: [text, err]

vars == <<variant, entry, client, maxHistory, flags, inputReadable, clientEnvOK,
          pc, phase, cfgRounds, inputLoaded, n, i, history, tempHistory, chal,
          rounds, ret, calls, elapsed, report, outputWrites, err,
          trimIn, trimMax, trimOut,
          chunks, portErr, genPc, progPc, streamPos, result, resultCount,
          channel, progress, genRet>>

----------------------------------------------------------------------------
(* Bounds of the model. *)

\* largest history capacity (MaxHistory) explored
MaxCapacity == 2
\* largest --rounds flag value explored
MaxRoundsFlag == 3
\* cap on the number of Generate calls in one behaviour
MaxCalls == 7

----------------------------------------------------------------------------
(* Program constants. *)

RoleUser == "user"
RoleSystem == "system"
RoleChallenger == "challenger"
RoleDefender == "defender"
RoleSummarizer == "summarizer"

\* math.MaxInt, narrowed to the integer range of the checker; the loop
\* counter is capped by MaxCalls far below either value.
MaxInt == 2147483647
\* the round count the joined variant falls back to
DefaultRounds == 3
\* time.Millisecond, in milliseconds
Millisecond == 1

SummarizeInstruction == "Summarize the debate: top blind spots, opportunities, deadly assumption."

\* LLMConfig as parseFlags builds it: the --challenger and --defender model
\* names (two distinct values, as in the tests) and the fallback prompts
ChallengerModel == "mC"
DefenderModel == "mD"
ChalPrompt == "You are the Challenger. Attack ruthlessly:"
DefPrompt == "You are the Defender. Represent the user:"

\* the text loadInput reads
Claim == "the claim"

\* errors are chains of messages: Nil is the nil error, Wrap is fmt.Errorf("p: %w", e)
Nil == <<>>
NewError(msg) == <<msg>>
Wrap(prefix, e) == <<prefix>> \o e

----------------------------------------------------------------------------
(* Inputs. *)

Variants == {"split", "joined"}
\* non-empty texts a backend may generate
Texts == {"yes", "no"}
\* --duration values; ParseDuration gives their meaning
Durations == {"", "2m", "40s", "0s", "-1m", "not-a-duration"}
\* measured trial-round times, in milliseconds
ElapsedTimes == {0, 20000, 50000}

\* what the backend behind a Generate call does: the assembled text, or an error
RawOutcomes ==
    {[text |-> t, err |-> Nil] : t \in Texts \cup {""}}
        \cup {[text |-> "", err |-> NewError("port error")]}

Message(role, content) == [Role |-> role, Content |-> content]
claimEntry == Message(RoleUser, Claim)
\* mutant of DebateRound: the two texts change places
DebateRoundSwapped(c, d) == [Challenger |-> d, Defender |-> c]

DebateRound(c, d) == [Challenger |-> c, Defender |-> d]

\* time.ParseDuration on the values of Durations, in milliseconds
ParseDuration(s) ==
    CASE s = "2m"  -> [ok |-> TRUE, ms |-> 120000]
      [] s = "40s" -> [ok |-> TRUE, ms |-> 40000]
      [] s = "0s"  -> [ok |-> TRUE, ms |-> 0]
      [] s = "-1m" -> [ok |-> TRUE, ms |-> 0 - 60000]
      [] OTHER     -> [ok |-> FALSE, ms |-> 0]

----------------------------------------------------------------------------
(* Pure functions. *)

\* mutant of trimHistory: keeps the oldest max elements instead of the newest
trimHistoryHead(h, max) ==
    IF Len(h) <= max THEN h ELSE SubSeq(h, 1, max)

\* mutant of trimHistory: the window ends one element early
trimHistoryStale(h, max) ==
    IF Len(h) <= max THEN h ELSE SubSeq(h, Len(h) - max, Len(h) - 1)

\* mutant of trimHistory: only the oldest element is dropped
trimHistoryLoose(h, max) ==
    IF Len(h) <= max THEN h ELSE Tail(h)

\* trimHistory: the last max elements of the slice, or the slice itself
trimHistory(h, max) ==
    IF Len(h) <= max THEN h ELSE SubSeq(h, Len(h) - max + 1, Len(h))

\* index (0-based) in h's backing array at which trimHistory(h, max) starts
trimOffset(h, max) ==
    IF Len(h) <= max THEN 0 ELSE Len(h) - max

\* mutant of SetFirst: the assignment is missing
SetFirstSkipped(view, m) == view

\* tempHistory[0] = claimEntry
SetFirst(view, m) == [view EXCEPT ![1] = m]

\* the same assignment seen through history, which shares tempHistory's
\* backing array: the cell at trimOffset is overwritten
WriteThrough(h, max, m) == [h EXCEPT ![trimOffset(h, max) + 1] = m]

\* mutant of LoopContinues: one iteration too many
LoopContinuesInclusive(k, N) == k <= N

\* the for-loop condition of runDebateFlow
LoopContinues(k, N) == k < N

\* mutant of FailureRounds: the rounds completed so far are returned
FailureRoundsPartial(rs) == rs

\* "return nil, err": no rounds are returned on failure
FailureRounds(rs) == <<>>

\* fmt.Sprintf("%s: %s\n", m.Role, m.Content) for each message, in order;
\* a rendered line is the pair of its two substituted fields
RenderLines(h) == [k \in 1..Len(h) |-> <<h[k].Role, h[k].Content>>]

\* mutant of GenerateArgs: the instruction is always put in front of the
\* lines in the prompt field
GenerateArgsConcatenated(v, model, instruction, h) ==
    [model |-> model, system |-> <<>>, prompt |-> <<instruction>> \o RenderLines(h)]

\* the arguments runSingleRound hands to client.Generate: in the split variant
\* the instruction is the system field and the lines are the prompt field; in
\* the joined variant the prompt field is instruction + "\n" + lines
GenerateArgs(v, model, instruction, h) ==
    IF v = "split"
    THEN [model |-> model, system |-> instruction, prompt |-> RenderLines(h)]
    ELSE [model |-> model, system |-> <<>>, prompt |-> <<instruction>> \o RenderLines(h)]

\* the instruction of a debate turn: RoleX + "\n" + prompt (split), prompt (joined)
Instruction(v, role, prompt) ==
    IF v = "split" THEN <<role, prompt>> ELSE <<prompt>>

\* mutant of OllamaGenerate: the empty-result check is missing
OllamaGenerateUnchecked(raw) ==
    IF raw.err # Nil THEN [text |-> "", err |-> raw.err]
    ELSE [text |-> raw.text, err |-> Nil]

\* OllamaClient.Generate: a backend error is returned, an empty assembled
\* text becomes the error "empty response"
OllamaGenerate(raw) ==
    IF raw.err # Nil THEN [text |-> "", err |-> raw.err]
    ELSE IF raw.text = "" THEN [text |-> "", err |-> NewError("empty response")]
    ELSE [text |-> raw.text, err |-> Nil]

\* fakeLLM.Generate: whatever the respond function returns
FakeGenerate(raw) == raw

Generate(c, raw) ==
    IF c = "OllamaClient" THEN OllamaGenerate(raw) ELSE FakeGenerate(raw)

\* mutant of IsError: the error check is missing
IsErrorIgnored(e) == FALSE

\* runCLI's "if err != nil" after estimateRounds, runDebateFlow and summarizeDebate
IsError(e) == e # Nil

\* the mutual-exclusion test of runCLI
BothSet(r, d) == r > 0 /\ d # ""

\* the test that sends runCLI into estimateRounds
WantsEstimate(r, d) == r = 0 /\ d # ""

\* "if config.Rounds <= 0": unbounded in the split variant, 3 in the joined one
EffectiveRounds(v, r) ==
    IF r <= 0 THEN (IF v = "split" THEN MaxInt ELSE DefaultRounds) ELSE r

\* int(x / y) for y > 0: Go's conversion truncates toward zero
TruncDiv(x, y) == IF x >= 0 THEN x \div y ELSE 0 - ((0 - x) \div y)

\* mutant of EstimatedRounds: the clamp to a minimum of 1 is missing
EstimatedRoundsUnclamped(v, total, el) ==
    LET e == IF v = "split" /\ el <= 0 THEN Millisecond ELSE el
    IN  IF e = 0 THEN {1, MaxInt} ELSE {TruncDiv(total, e)}

\* the round counts estimateRounds can return for a parsed budget and a
\* measured time.  The split variant replaces elapsed <= 0 by one millisecond.
\* The joined variant divides by zero: the quotient is +Inf, -Inf or NaN and
\* its conversion to int is implementation-dependent (the most negative int
\* or 0 on some builds, the largest int on others), which the clamp turns
\* into 1 or leaves at MaxInt.
EstimatedRounds(v, total, el) ==
    LET e == IF v = "split" /\ el <= 0 THEN Millisecond ELSE el
        clamp(r) == IF r < 1 THEN 1 ELSE r
    IN  IF e = 0 THEN {1, MaxInt} ELSE {clamp(TruncDiv(total, e))}

\* mutant of SummaryText: the round headers count from 0
SummaryTextZeroBased(debate) ==
    [k \in 1..Len(debate) |->
        <<"### Round", k - 1, "Challenger:", debate[k].Challenger,
          "Defender:", debate[k].Defender, "">>]

\* summarizeDebate's fullText: per round the header "### Round k" (k from 1),
\* the Challenger line, the Defender line and a blank line
SummaryText(debate) ==
    [k \in 1..Len(debate) |->
        <<"### Round", k, "Challenger:", debate[k].Challenger,
          "Defender:", debate[k].Defender, "">>]

----------------------------------------------------------------------------
(* State machine. *)

\* trimHistory has not been called on its own
TrimNotRun == [done |-> FALSE, result |-> <<>>, twice |-> FALSE, again |-> <<>>]

envVars  == <<variant, entry, client, maxHistory, flags, inputReadable, clientEnvOK>>
trimVars == <<trimIn, trimMax, trimOut>>
genVars  == <<chunks, portErr, genPc, progPc, streamPos, result, resultCount,
              channel, progress, genRet>>

\* OllamaClient.Generate is not called on its own
GenNotRun ==
    /\ chunks = <<>>
    /\ portErr = Nil
    /\ genPc = "none"
    /\ progPc = "none"
    /\ streamPos = 0
    /\ result = <<>>
    /\ resultCount = 0
    /\ channel = [closed |-> FALSE, log |-> <<>>]
    /\ progress = 0
    /\ genRet = [text |-> <<>>, err |-> Nil]
flowVars == <<n, i, history, tempHistory, chal, rounds>>
cliVars  == <<cfgRounds, inputLoaded, elapsed, report, outputWrites>>

Init ==
    /\ variant \in Variants
    /\ entry \in {"runCLI", "runDebateFlow"}
    /\ client \in IF entry = "runCLI" THEN {"OllamaClient"} ELSE {"OllamaClient", "fakeLLM"}
    /\ maxHistory \in 0..MaxCapacity
    /\ IF entry = "runCLI"
       THEN /\ flags \in [input : {"", "notes.md"}, output : {"", "report.md"},
                          rounds : (0 - 1)..MaxRoundsFlag, duration : Durations]
            /\ inputReadable \in BOOLEAN
            /\ clientEnvOK \in BOOLEAN
            /\ pc = "parseFlags"
            /\ phase = "none"
            /\ history = <<>>
       ELSE \* runDebateFlow(fake, Claim, DebateConfig{Rounds: r}, llm)
            /\ flags \in [input : {""}, output : {""},
                          rounds : (0 - 1)..MaxRoundsFlag, duration : {""}]
            /\ inputReadable = TRUE
            /\ clientEnvOK = TRUE
            /\ pc = "loop"
            /\ phase = "direct"
            /\ history = <<claimEntry>>
    /\ n = IF entry = "runCLI" THEN 0 ELSE flags.rounds
    /\ cfgRounds = 0
    /\ inputLoaded = FALSE
    /\ i = 0
    /\ tempHistory = <<>>
    /\ chal = ""
    /\ rounds = <<>>
    /\ ret = [rounds |-> <<>>, err |-> Nil]
    /\ calls = <<>>
    /\ elapsed = 0
    /\ report = ""
    /\ outputWrites = <<>>
    /\ err = Nil
    /\ trimIn = <<>>
    /\ trimMax = 0
    /\ trimOut = TrimNotRun
    /\ GenNotRun

\* runCLI returns the error x
Fail(x) ==
    /\ err' = x
    /\ pc' = "failed"

\* parseFlags
ParseFlags ==
    /\ pc = "parseFlags"
    /\ IF flags.input = "" \/ flags.output = ""
       THEN Fail(NewError("input and output required")) /\ UNCHANGED cfgRounds
       ELSE /\ cfgRounds' = flags.rounds
            /\ pc' = "checkFlags"
            /\ err' = err
    /\ UNCHANGED <<envVars, trimVars, genVars, flowVars, phase, ret, calls,
                   inputLoaded, elapsed, report, outputWrites>>

\* runCLI: the --rounds / --duration exclusion
CheckExclusive ==
    /\ pc = "checkFlags"
    /\ IF BothSet(cfgRounds, flags.duration)
       THEN Fail(NewError("--rounds and --duration cannot be used together"))
       ELSE pc' = "loadInput" /\ err' = err
    /\ UNCHANGED <<envVars, trimVars, genVars, flowVars, cliVars, phase, ret, calls>>

\* loadInput
LoadInput ==
    /\ pc = "loadInput"
    /\ IF inputReadable
       THEN inputLoaded' = TRUE /\ pc' = "newClient" /\ err' = err
       ELSE Fail(Wrap("reading input file", NewError("open failed"))) /\ UNCHANGED inputLoaded
    /\ UNCHANGED <<envVars, trimVars, genVars, flowVars, phase, ret, calls,
                   cfgRounds, elapsed, report, outputWrites>>

\* api.ClientFromEnvironment and NewOllamaClient
NewClient ==
    /\ pc = "newClient"
    /\ IF clientEnvOK
       THEN pc' = "chooseRounds" /\ err' = err
       ELSE Fail(Wrap("creating client", NewError("bad environment")))
    /\ UNCHANGED <<envVars, trimVars, genVars, flowVars, cliVars, phase, ret, calls>>

\* mutant of StartFlow: a history left by an earlier call is reused
StartFlowKeepHistory(N) ==
    /\ n' = N
    /\ i' = 0
    /\ history' = IF history = <<>> THEN <<claimEntry>> ELSE history
    /\ tempHistory' = <<>>
    /\ chal' = ""
    /\ rounds' = <<>>
    /\ pc' = "loop"

\* entry of runDebateFlow with config.Rounds = N
StartFlow(N) ==
    /\ n' = N
    /\ i' = 0
    /\ history' = <<claimEntry>>
    /\ tempHistory' = <<>>
    /\ chal' = ""
    /\ rounds' = <<>>
    /\ pc' = "loop"

\* runCLI calls estimateRounds, which calls runDebateFlow with Rounds: 1
EstimateStart ==
    /\ pc = "chooseRounds"
    /\ WantsEstimate(cfgRounds, flags.duration)
    /\ phase' = "estimate"
    /\ StartFlow(1)
    /\ UNCHANGED <<envVars, trimVars, genVars, cliVars, ret, calls, err>>

\* the rest of estimateRounds, after its runDebateFlow call has returned
EstimateReturn ==
    /\ pc = "estimateReturn"
    /\ IF IsError(ret.err)
       THEN Fail(ret.err) /\ UNCHANGED <<elapsed, cfgRounds>>
       ELSE \E el \in ElapsedTimes :
              /\ elapsed' = el
              /\ LET total == ParseDuration(flags.duration) IN
                 IF ~total.ok
                 THEN /\ Fail(Wrap("invalid duration", NewError("time: invalid duration")))
                      /\ UNCHANGED cfgRounds
                 ELSE /\ \E r \in EstimatedRounds(variant, total.ms, el) : cfgRounds' = r
                      /\ pc' = "startDebate"
                      /\ err' = err
    /\ UNCHANGED <<envVars, trimVars, genVars, flowVars, phase, ret, calls, inputLoaded, report, outputWrites>>

\* runCLI: the default for config.Rounds <= 0, then the call of runDebateFlow
DebateStart ==
    /\ \/ pc = "chooseRounds" /\ ~WantsEstimate(cfgRounds, flags.duration)
       \/ pc = "startDebate"
    /\ cfgRounds' = EffectiveRounds(variant, cfgRounds)
    /\ phase' = "debate"
    /\ StartFlow(cfgRounds')
    /\ UNCHANGED <<envVars, trimVars, genVars, ret, calls, inputLoaded, elapsed, report, outputWrites, err>>

\* where runDebateFlow returns to
ReturnPc ==
    CASE phase = "estimate" -> "estimateReturn"
      [] phase = "debate"   -> "debateReturn"
      [] OTHER              -> "returned"

\* the context (history argument) of the next runSingleRound call
Context == IF variant = "split" THEN tempHistory ELSE history

\* the record of one Generate call: what was passed and what came back
CallRecord(role, model, instruction, context, raw, out) ==
    [role |-> role, phase |-> phase, round |-> i + 1, context |-> context,
     args |-> GenerateArgs(variant, model, instruction, context),
     raw |-> raw, out |-> out]

\* loop head with i < config.Rounds: the trimmed view of this iteration
LoopIterate ==
    /\ pc = "loop"
    /\ LoopContinues(i, n)
    /\ IF variant = "split"
       THEN /\ tempHistory' = SetFirst(trimHistory(history, maxHistory + 1), claimEntry)
            /\ history' = WriteThrough(history, maxHistory + 1, claimEntry)
       ELSE /\ history' = trimHistory(history, maxHistory)
            /\ tempHistory' = tempHistory
    /\ pc' = "challenger"
    /\ UNCHANGED <<envVars, trimVars, genVars, cliVars, n, i, chal, rounds, phase, ret, calls, err>>

\* loop head with i >= config.Rounds: return rounds, nil
LoopExit ==
    /\ pc = "loop"
    /\ ~LoopContinues(i, n)
    /\ ret' = [rounds |-> rounds, err |-> Nil]
    /\ pc' = ReturnPc
    /\ UNCHANGED <<envVars, trimVars, genVars, flowVars, cliVars, phase, calls, err>>

\* the Challenger's runSingleRound and what follows it up to the Defender's
ChallengerCall ==
    /\ pc = "challenger"
    /\ Len(calls) < MaxCalls
    /\ \E raw \in RawOutcomes :
         LET out == Generate(client, raw)
             chalEntry == Message(RoleChallenger, out.text)
         IN  /\ calls' = Append(calls,
                    CallRecord(RoleChallenger, ChallengerModel,
                               Instruction(variant, RoleChallenger, ChalPrompt), Context, raw, out))
             /\ IF out.err # Nil
                THEN /\ ret' = [rounds |-> FailureRounds(rounds),
                                err |-> IF variant = "split"
                                        THEN Wrap("running challenger", out.err)
                                        ELSE out.err]
                     /\ pc' = ReturnPc
                     /\ UNCHANGED <<chal, history, tempHistory>>
                ELSE /\ chal' = out.text
                     /\ IF variant = "split"
                        THEN tempHistory' = Append(tempHistory, chalEntry) /\ history' = history
                        ELSE history' = Append(history, chalEntry) /\ tempHistory' = tempHistory
                     /\ pc' = "defender"
                     /\ ret' = ret
    /\ UNCHANGED <<envVars, trimVars, genVars, cliVars, n, i, rounds, phase, err>>

\* the Defender's runSingleRound and the rest of the iteration
DefenderCall ==
    /\ pc = "defender"
    /\ Len(calls) < MaxCalls
    /\ \E raw \in RawOutcomes :
         LET out == Generate(client, raw)
             chalEntry == Message(RoleChallenger, chal)
             defEntry == Message(RoleDefender, out.text)
         IN  /\ calls' = Append(calls,
                    CallRecord(RoleDefender, DefenderModel,
                               Instruction(variant, RoleDefender, DefPrompt), Context, raw, out))
             /\ IF out.err # Nil
                THEN /\ ret' = [rounds |-> FailureRounds(rounds),
                                err |-> IF variant = "split"
                                        THEN Wrap("running defender", out.err)
                                        ELSE out.err]
                     /\ pc' = ReturnPc
                     /\ UNCHANGED <<history, tempHistory, rounds, i>>
                ELSE /\ IF variant = "split"
                        THEN /\ tempHistory' = Append(tempHistory, defEntry)
                             /\ history' = history \o <<chalEntry, defEntry>>
                        ELSE /\ history' = Append(history, defEntry)
                             /\ tempHistory' = tempHistory
                     /\ rounds' = Append(rounds, DebateRound(chal, out.text))
                     /\ i' = i + 1
                     /\ pc' = "loop"
                     /\ ret' = ret
    /\ UNCHANGED <<envVars, trimVars, genVars, cliVars, n, chal, phase, err>>

\* runCLI after runDebateFlow has returned
DebateReturn ==
    /\ pc = "debateReturn"
    /\ IF IsError(ret.err)
       THEN Fail(ret.err)
       ELSE pc' = "summarize" /\ err' = err
    /\ UNCHANGED <<envVars, trimVars, genVars, flowVars, cliVars, phase, ret, calls>>

\* summarizeDebate(llmClient, debate, llm.ChallengerModel)
Summarize ==
    /\ pc = "summarize"
    /\ Len(calls) < MaxCalls
    /\ \E raw \in RawOutcomes :
         LET out == Generate(client, raw)
             context == <<Message(RoleSystem, SummaryText(ret.rounds))>>
         IN  /\ calls' = Append(calls,
                    CallRecord(RoleSummarizer, ChallengerModel,
                               <<SummarizeInstruction>>, context, raw, out))
             /\ IF IsError(out.err)
                THEN Fail(out.err) /\ report' = report
                ELSE report' = out.text /\ pc' = "writeFile" /\ err' = err
    /\ UNCHANGED <<envVars, trimVars, genVars, flowVars, phase, ret,
                   cfgRounds, inputLoaded, elapsed, outputWrites>>

\* os.WriteFile(config.OutputFile, report): it succeeds, or returns an error
WriteOutput ==
    /\ pc = "writeFile"
    /\ \/ /\ outputWrites' = Append(outputWrites, report)
          /\ pc' = "done"
          /\ err' = err
       \/ /\ Fail(NewError("write failed"))
          /\ outputWrites' = outputWrites
    /\ UNCHANGED <<envVars, trimVars, genVars, flowVars, phase, ret, calls,
                   cfgRounds, inputLoaded, elapsed, report>>

Next ==
    \/ ParseFlags
    \/ CheckExclusive
    \/ LoadInput
    \/ NewClient
    \/ EstimateStart
    \/ EstimateReturn
    \/ DebateStart
    \/ LoopIterate
    \/ LoopExit
    \/ ChallengerCall
    \/ DefenderCall
    \/ DebateReturn
    \/ Summarize
    \/ WriteOutput

Spec == Init /\ [][Next]_vars

----------------------------------------------------------------------------
(* trimHistory on its own: the argument is any slice of at most MaxTrimLen  *)
(* messages, the bound any value up to MaxTrimLen + 1.                      *)

\* longest slice handed to trimHistory on its own
MaxTrimLen == 3

TrimMessages ==
    {claimEntry, Message(RoleChallenger, "yes"), Message(RoleDefender, "no")}

TrimInputs == UNION {[1..len -> TrimMessages] : len \in 0..MaxTrimLen}

InitTrim ==
    /\ variant \in Variants
    /\ entry = "trimHistory"
    /\ client = "fakeLLM"
    /\ maxHistory = 0
    /\ flags = [input |-> "", output |-> "", rounds |-> 0, duration |-> ""]
    /\ inputReadable = TRUE
    /\ clientEnvOK = TRUE
    /\ pc = "trim"
    /\ phase = "none"
    /\ history = <<>>
    /\ n = 0
    /\ cfgRounds = 0
    /\ inputLoaded = FALSE
    /\ i = 0
    /\ tempHistory = <<>>
    /\ chal = ""
    /\ rounds = <<>>
    /\ ret = [rounds |-> <<>>, err |-> Nil]
    /\ calls = <<>>
    /\ elapsed = 0
    /\ report = ""
    /\ outputWrites = <<>>
    /\ err = Nil
    /\ trimIn \in TrimInputs
    /\ trimMax \in 0..(MaxTrimLen + 1)
    /\ trimOut = TrimNotRun
    /\ GenNotRun

\* out := trimHistory(h, max)
CallTrim ==
    /\ pc = "trim"
    /\ trimOut' = [trimOut EXCEPT !.done = TRUE,
                                   !.result = trimHistory(trimIn, trimMax)]
    /\ pc' = "returned"
    /\ UNCHANGED <<envVars, genVars, flowVars, cliVars, phase, ret, calls, err, trimIn, trimMax>>

\* again := trimHistory(out, max)
CallTrimAgain ==
    /\ entry = "trimHistory"
    /\ pc = "returned"
    /\ ~trimOut.twice
    /\ trimOut' = [trimOut EXCEPT !.twice = TRUE,
                                   !.again = trimHistory(trimOut.result, trimMax)]
    /\ UNCHANGED <<envVars, genVars, flowVars, cliVars, pc, phase, ret, calls, err, trimIn, trimMax>>

NextTrim ==
    \/ CallTrim
    \/ CallTrimAgain

SpecTrim == InitTrim /\ [][NextTrim]_vars

-----------------------------------------------------------------------------
(* OllamaClient.Generate on its own (part_000): the caller runs            *)
(* GenerateWithChannel, whose streaming callback sends one notification    *)
(* per chunk on the unbuffered channel; the progress goroutine ranges over *)
(* the channel.  A string is the sequence of its characters.               *)

\* largest number of chunks the port streams
MaxChunks == 3

\* resp.Response of one streamed chunk
ChunkTexts == {<<>>, <<"a">>, <<"b", "c">>}

\* the streams the port can produce
Streams == UNION {[1..len -> ChunkTexts] : len \in 0..MaxChunks}

\* mutant of AppendChunk: the chunk replaces what was assembled so far
AppendChunkReplace(res, chunk) == chunk

\* result += resp.Response
AppendChunk(res, chunk) == res \o chunk

\* the three returns of GenerateWithChannel
GenerateResult(e, res) ==
    IF e # Nil THEN [text |-> <<>>, err |-> e]
    ELSE IF res = <<>> THEN [text |-> <<>>, err |-> NewError("empty response")]
    ELSE [text |-> res, err |-> Nil]

\* the other variables while OllamaClient.Generate runs on its own
InitGen ==
    /\ variant = "split"
    /\ entry = "Generate"
    /\ client = "OllamaClient"
    /\ maxHistory = 0
    /\ flags = [input |-> "", output |-> "", rounds |-> 0, duration |-> ""]
    /\ inputReadable = TRUE
    /\ clientEnvOK = TRUE
    /\ pc = "generate"
    /\ phase = "none"
    /\ history = <<>>
    /\ n = 0
    /\ cfgRounds = 0
    /\ inputLoaded = FALSE
    /\ i = 0
    /\ tempHistory = <<>>
    /\ chal = ""
    /\ rounds = <<>>
    /\ ret = [rounds |-> <<>>, err |-> Nil]
    /\ calls = <<>>
    /\ elapsed = 0
    /\ report = ""
    /\ outputWrites = <<>>
    /\ err = Nil
    /\ trimIn = <<>>
    /\ trimMax = 0
    /\ trimOut = TrimNotRun
    /\ chunks \in Streams
    /\ portErr \in {Nil, NewError("port error")}
    /\ genPc = "start"
    /\ progPc = "none"
    /\ streamPos = 0
    /\ result = <<>>
    /\ resultCount = 0
    /\ channel = [closed |-> FALSE, log |-> <<>>]
    /\ progress = 0
    /\ genRet = [text |-> <<>>, err |-> Nil]

genFrame == <<envVars, trimVars, flowVars, cliVars, pc, phase, ret, calls, err, chunks, portErr>>

\* Generate: make(chan int), progressbar.Default(-1), go func() {...}, and
\* the call of GenerateWithChannel up to Client.Generate
GenerateStart ==
    /\ genPc = "start"
    /\ channel' = [closed |-> FALSE, log |-> <<>>]
    /\ progPc' = "range"
    /\ genPc' = "stream"
    /\ UNCHANGED <<genFrame, streamPos, result, resultCount, progress, genRet>>

\* the port hands the next chunk to the callback: result += resp.Response
StreamChunk ==
    /\ genPc = "stream"
    /\ streamPos < Len(chunks)
    /\ result' = AppendChunk(result, chunks[streamPos + 1])
    /\ streamPos' = streamPos + 1
    /\ genPc' = "send"
    /\ UNCHANGED <<genFrame, progPc, resultCount, channel, progress, genRet>>

\* channel <- resultCount: on an unbuffered channel the send completes when
\* the goroutine is at its receive; a send on a closed channel panics
ChannelSend ==
    /\ genPc = "send"
    /\ IF channel.closed
       THEN /\ genPc' = "panic"
            /\ UNCHANGED <<channel, progPc>>
       ELSE /\ progPc = "range"
            /\ channel' = [channel EXCEPT !.log = Append(@, [op |-> "send", val |-> resultCount])]
            /\ progPc' = "add"
            /\ genPc' = "sent"
    /\ UNCHANGED <<genFrame, streamPos, result, resultCount, progress, genRet>>

\* resultCount++; return nil
CallbackReturn ==
    /\ genPc = "sent"
    /\ resultCount' = resultCount + 1
    /\ genPc' = "stream"
    /\ UNCHANGED <<genFrame, progPc, streamPos, result, channel, progress, genRet>>

\* the stream is over: Client.Generate returns err
StreamEnd ==
    /\ genPc = "stream"
    /\ streamPos = Len(chunks)
    /\ genPc' = "close"
    /\ UNCHANGED <<genFrame, progPc, streamPos, result, resultCount, channel, progress, genRet>>

\* mutant of CloseAndReturn: the empty-response return leaves the channel open
CloseAndReturnLeaky ==
    /\ genPc = "close"
    /\ IF channel.closed
       THEN genPc' = "panic" /\ UNCHANGED <<channel, genRet>>
       ELSE /\ channel' = IF portErr = Nil /\ result = <<>>
                          THEN channel
                          ELSE [closed |-> TRUE, log |-> Append(channel.log, [op |-> "close", val |-> 0])]
            /\ genRet' = GenerateResult(portErr, result)
            /\ genPc' = "returned"
    /\ UNCHANGED <<genFrame, progPc, streamPos, result, resultCount, progress>>

\* each of the three exits: close(channel), then return; closing a closed
\* channel panics
CloseAndReturn ==
    /\ genPc = "close"
    /\ IF channel.closed
       THEN genPc' = "panic" /\ UNCHANGED <<channel, genRet>>
       ELSE /\ channel' = [closed |-> TRUE, log |-> Append(channel.log, [op |-> "close", val |-> 0])]
            /\ genRet' = GenerateResult(portErr, result)
            /\ genPc' = "returned"
    /\ UNCHANGED <<genFrame, progPc, streamPos, result, resultCount, progress>>

\* mutant of ProgressAdd: the goroutine leaves its loop after one notification
ProgressAddOnce ==
    /\ progPc = "add"
    /\ progress' = progress + 1
    /\ progPc' = "finish"
    /\ UNCHANGED <<genFrame, genPc, streamPos, result, resultCount, channel, genRet>>

\* body of the goroutine's loop: progress.Add(1), back to the receive
ProgressAdd ==
    /\ progPc = "add"
    /\ progress' = progress + 1
    /\ progPc' = "range"
    /\ UNCHANGED <<genFrame, genPc, streamPos, result, resultCount, channel, genRet>>

\* for range channel ends once the channel is closed
ProgressRangeEnd ==
    /\ progPc = "range"
    /\ channel.closed
    /\ progPc' = "finish"
    /\ UNCHANGED <<genFrame, genPc, streamPos, result, resultCount, channel, progress, genRet>>

\* progress.Finish(); the goroutine returns
ProgressFinish ==
    /\ progPc = "finish"
    /\ progPc' = "done"
    /\ UNCHANGED <<genFrame, genPc, streamPos, result, resultCount, channel, progress, genRet>>

NextGen ==
    \/ GenerateStart
    \/ StreamChunk
    \/ ChannelSend
    \/ CallbackReturn
    \/ StreamEnd
    \/ CloseAndReturn
    \/ ProgressAdd
    \/ ProgressRangeEnd
    \/ ProgressFinish

SpecGen == InitGen /\ [][NextGen]_vars

\* the Go scheduler runs every goroutine that can take a step, and the port
\* keeps delivering its stream
SpecGenFair ==
    /\ SpecGen
    /\ WF_vars(GenerateStart \/ StreamChunk \/ ChannelSend \/ CallbackReturn \/ StreamEnd \/ CloseAndReturn)
    /\ WF_vars(ProgressAdd \/ ProgressRangeEnd \/ ProgressFinish)

\* the in-order concatenation of a sequence of chunks
RECURSIVE Concatenation(_)
Concatenation(cs) ==
    IF cs = <<>> THEN <<>> ELSE Head(cs) \o Concatenation(Tail(cs))

\* the channel operations of one kind performed so far
ChannelOps(kind) == SelectSeq(channel.log, LAMBDA o : o.op = kind)

\* C22: whatever the interleaving with the progress goroutine and however
\* many chunks are streamed, what has been assembled is the concatenation of
\* the chunks delivered so far, and Generate returns the port's error, the
\* error "empty response" for an empty concatenation, or the concatenation
\* of all chunks in order.
C22_ReturnsConcatenation ==
    entry = "Generate" =>
        /\ genPc # "panic"
        /\ result = Concatenation(SubSeq(chunks, 1, streamPos))
        /\ genPc = "returned" =>
              genRet = IF portErr # Nil
                       THEN [text |-> <<>>, err |-> portErr]
                       ELSE IF Concatenation(chunks) = <<>>
                            THEN [text |-> <<>>, err |-> NewError("empty response")]
                            ELSE [text |-> Concatenation(chunks), err |-> Nil]

\* C22 witness: three chunks, one of them empty, have been streamed and
\* Generate has returned their concatenation while the goroutine has not yet
\* counted the last notification
C22_Witness ==
    /\ genPc = "returned"
    /\ chunks = << <<"b", "c">>, <<>>, <<"a">> >>
    /\ genRet = [text |-> <<"b", "c", "a">>, err |-> Nil]
    /\ progPc = "add"
    /\ progress = 2

\* C23: the progress channel is closed exactly once by the time Generate
\* returns, whichever of the three exits is taken (port error, empty result,
\* success); it is never closed twice, and no notification is sent after the
\* close (either would panic).
C23_ClosedExactlyOnce ==
    entry = "Generate" =>
        /\ genPc # "panic"
        /\ Len(ChannelOps("close")) <= 1
        /\ channel.closed <=> Len(ChannelOps("close")) = 1
        /\ genPc = "returned" => channel.closed
        /\ channel.closed => genPc = "returned"
        /\ \A k \in 1..Len(channel.log) :
               channel.log[k].op = "close" => k = Len(channel.log)

\* C23 witness: two empty chunks were streamed and notified, and Generate
\* has returned "empty response" with the channel closed
C23_Witness ==
    /\ genPc = "returned"
    /\ portErr = Nil
    /\ genRet.err = NewError("empty response")
    /\ Len(ChannelOps("send")) = 2
    /\ Len(ChannelOps("close")) = 1

\* Generate has returned and its goroutine has ended
GenerateFinished == genPc = "returned" /\ progPc = "done"

\* C24: under fair scheduling every notification send is eventually taken by
\* the progress goroutine, Generate eventually returns and the goroutine
\* eventually terminates.
C24_GenerateTerminates ==
    /\ (genPc = "send") ~> (genPc = "sent")
    /\ <>[]GenerateFinished

\* C24 witness: three chunks were streamed, each notification was counted,
\* Generate has returned and the goroutine has ended
C24_Witness ==
    /\ GenerateFinished
    /\ Len(chunks) = 3
    /\ progress = 3
    /\ resultCount = 3

----------------------------------------------------------------------------
(* Properties. *)

FlowPhases == {"estimate", "debate", "direct"}

\* the Generate calls one runDebateFlow invocation has issued, in order
PhaseCalls(ph) ==
    SelectSeq(calls, LAMBDA c : c.phase = ph /\ c.role \in {RoleChallenger, RoleDefender})

\* runDebateFlow has just returned to its caller
Returned == pc \in {"estimateReturn", "debateReturn", "returned"} /\ entry # "trimHistory"

\* the turn a successful call produced
TurnOf(c) == Message(c.role, c.out.text)

\* the turns produced by the calls before the k-th call of a phase
ProducedBefore(cs, k) == [j \in 1..(k - 1) |-> TurnOf(cs[j])]

\* the last m elements of a sequence
LastN(q, m) == SubSeq(q, Len(q) - m + 1, Len(q))

Min(a, b) == IF a <= b THEN a ELSE b

NonSeedCount(h) == Cardinality({j \in 1..Len(h) : h[j] # claimEntry})

\* C1: in every runDebateFlow invocation the calls alternate Challenger,
\* Defender, ... (call 2k-1 is round k's Challenger, call 2k round k's
\* Defender, each with its own model), and an invocation with round count
\* N >= 1 that returns without error has issued exactly 2N calls and returns
\* exactly N rounds.
C1_TwoCallsPerRound ==
    \A ph \in FlowPhases :
        LET cs == PhaseCalls(ph) IN
        /\ \A k \in 1..Len(cs) :
              /\ cs[k].round = (k + 1) \div 2
              /\ cs[k].role = IF k % 2 = 1 THEN RoleChallenger ELSE RoleDefender
              /\ cs[k].args.model = IF k % 2 = 1 THEN ChallengerModel ELSE DefenderModel
        /\ (Returned /\ phase = ph /\ ret.err = Nil /\ n >= 1)
              => /\ Len(cs) = 2 * n
                 /\ Len(ret.rounds) = n
                 /\ \A k \in 1..Len(cs) : cs[k].out.err = Nil

\* C1 witness: a two-round invocation has returned successfully after 4 calls
C1_Witness ==
    /\ Returned /\ ret.err = Nil /\ n = 2
    /\ Len(PhaseCalls(phase)) = 4 /\ Len(ret.rounds) = 2

\* C2: in the split variant the context of every Challenger and Defender call
\* has the seed claim turn at index 0, and the rendered prompt starts with
\* the seed's line, for every capacity and every round.
C2_SeedFirstInSplit ==
    variant = "split" =>
        \A k \in 1..Len(calls) :
            calls[k].role \in {RoleChallenger, RoleDefender}
                => /\ Len(calls[k].context) >= 1
                   /\ calls[k].context[1] = claimEntry
                   /\ calls[k].args.prompt[1] = <<RoleUser, Claim>>

\* C2 witness: a Defender call of the split variant issued in a round that
\* began with more than MaxHistory + 1 turns stored
C2_Witness ==
    /\ variant = "split"
    /\ \E k \in 1..Len(calls) :
          /\ calls[k].role = RoleDefender
          /\ 2 * (calls[k].round - 1) + 1 > maxHistory + 1
          /\ calls[k].context[1] = claimEntry

\* C3 (as claimed): the context of every Challenger and every Defender call
\* holds at most MaxHistory non-seed turns.
C3_AtMostMNonSeed ==
    \A k \in 1..Len(calls) :
        calls[k].role \in {RoleChallenger, RoleDefender}
            => NonSeedCount(calls[k].context) <= maxHistory

\* C4: in the split variant the context of round r's Challenger call is the
\* seed turn followed by the most recent min(MaxHistory, 2(r-1)) turns
\* produced so far in that invocation, in creation order.
C4_ChallengerWindow ==
    variant = "split" =>
        \A ph \in FlowPhases :
            LET cs == PhaseCalls(ph) IN
            \A k \in 1..Len(cs) :
                cs[k].role = RoleChallenger
                    => cs[k].context =
                         <<claimEntry>> \o
                            LastN(ProducedBefore(cs, k),
                                  Min(maxHistory, 2 * (cs[k].round - 1)))

\* C4 witness: a third-round Challenger call of the split variant whose window
\* has evicted turns and still holds one, the earlier turns not all alike
C4_Witness ==
    /\ variant = "split"
    /\ maxHistory >= 1
    /\ \E k \in 1..Len(calls) :
          /\ calls[k].role = RoleChallenger
          /\ calls[k].round = 3
          /\ 2 * (calls[k].round - 1) > maxHistory
          /\ Len(calls[k].context) = maxHistory + 1
          /\ \E a, b \in 1..(k - 1) : calls[a].out.text # calls[b].out.text

\* C5 (as claimed): for a history that starts with the seed and is longer
\* than maxLen >= 1, trimHistory returns exactly maxLen turns, the first of
\* them the seed.
C5_TrimKeepsSeed ==
    (/\ trimOut.done
     /\ trimMax >= 1
     /\ Len(trimIn) > trimMax
     /\ trimIn[1] = claimEntry)
        => /\ Len(trimOut.result) = trimMax
           /\ trimOut.result[1] = claimEntry

\* C6: the context of round k's Defender call ends with round k's Challenger
\* turn, and for MaxHistory >= 1 the context of round k+1's Challenger call
\* ends with round k's Defender turn.
C6_SeesPreviousTurn ==
    \A ph \in FlowPhases :
        LET cs == PhaseCalls(ph) IN
        \A k \in 2..Len(cs) :
            LET ctx == cs[k].context IN
            /\ cs[k].role = RoleDefender
                  => /\ Len(ctx) >= 1
                     /\ ctx[Len(ctx)] = Message(RoleChallenger, cs[k - 1].out.text)
                     /\ cs[k - 1].round = cs[k].round
            /\ (cs[k].role = RoleChallenger /\ maxHistory >= 1)
                  => /\ Len(ctx) >= 1
                     /\ ctx[Len(ctx)] = Message(RoleDefender, cs[k - 1].out.text)
                     /\ cs[k - 1].round + 1 = cs[k].round

\* C6 witness: a third-round Challenger call made with a window that has
\* already evicted turns
C6_Witness ==
    /\ maxHistory >= 1
    /\ \E k \in 1..Len(calls) :
          /\ calls[k].role = RoleChallenger
          /\ calls[k].round = 3
          /\ 2 * (calls[k].round - 1) > maxHistory
          /\ calls[k - 1].role = RoleDefender
          /\ calls[k - 2].out.text # calls[k - 1].out.text

\* C7: a failed Generate call is the last call of the run; when it is a
\* Challenger or Defender call, runDebateFlow returns an error and no rounds,
\* and the failed round is not recorded (after a Challenger failure no
\* Defender call of that round exists).
C7_FailureAborts ==
    \A k \in 1..Len(calls) :
        calls[k].out.err # Nil
            => /\ k = Len(calls)
               /\ pc \in {"estimateReturn", "debateReturn", "returned", "failed"}
               /\ calls[k].role \in {RoleChallenger, RoleDefender}
                     => /\ ret.err # Nil
                        /\ ret.rounds = <<>>
                        /\ Len(rounds) = calls[k].round - 1

\* C7 witness: round 2's Challenger call failed after round 1 was completed
C7_Witness ==
    /\ Returned
    /\ ret.err # Nil
    /\ Len(rounds) = 1
    /\ Len(calls) = 3
    /\ calls[3].role = RoleChallenger
    /\ calls[3].out.err # Nil

\* no message, recorded round or returned round holds empty text
NoEmptyTurn ==
    /\ \A j \in 1..Len(history) : history[j].Content # ""
    /\ \A j \in 1..Len(tempHistory) : tempHistory[j].Content # ""
    /\ \A j \in 1..Len(rounds) : rounds[j].Challenger # "" /\ rounds[j].Defender # ""
    /\ \A j \in 1..Len(ret.rounds) :
          ret.rounds[j].Challenger # "" /\ ret.rounds[j].Defender # ""

\* every call whose backend produced empty text failed and ended the run
EmptyTextFails ==
    \A k \in 1..Len(calls) :
        (calls[k].raw.err = Nil /\ calls[k].raw.text = "")
            => /\ calls[k].out.err # Nil
               /\ k = Len(calls)
               /\ pc \in {"estimateReturn", "debateReturn", "returned", "failed"}

C9_MalformedDurationNoCalls ==
    (/\ entry = "runCLI"
     /\ WantsEstimate(flags.rounds, flags.duration)
     /\ ~ParseDuration(flags.duration).ok)
        => calls = <<>>

\* C10 (as claimed): with --rounds different from 0 and a non-empty
\* --duration, runCLI never gets past the exclusion check: the input is not
\* loaded, no Generate call is made and nothing is written.
C10_ExclusiveFlagsRejected ==
    (/\ entry = "runCLI"
     /\ flags.rounds # 0
     /\ flags.duration # "")
        => /\ pc \in {"parseFlags", "checkFlags", "failed"}
           /\ ~inputLoaded
           /\ calls = <<>>
           /\ outputWrites = <<>>

\* the calls summarizeDebate has issued
SummaryCalls == SelectSeq(calls, LAMBDA c : c.role = RoleSummarizer)

Max(a, b) == IF a >= b THEN a ELSE b

\* C11: the output file is written at most once, and only when runCLI ends
\* without error after the estimator (if used), all rounds of the debate and
\* the Summarizer call have succeeded; when runCLI returns an error raised by
\* configuration, estimation, the debate loop or the Summarizer, nothing has
\* been written.
C11_WriteOnlyAfterSuccess ==
    /\ Len(outputWrites) <= 1
    /\ outputWrites # <<>> =>
          /\ pc = "done"
          /\ err = Nil
          /\ ret.err = Nil
          /\ \A k \in 1..Len(calls) : calls[k].out.err = Nil
          /\ Len(PhaseCalls("debate")) = 2 * cfgRounds
          /\ Len(ret.rounds) = cfgRounds
          /\ Len(SummaryCalls) = 1
          /\ calls[Len(calls)].role = RoleSummarizer
          /\ outputWrites[1] = calls[Len(calls)].out.text
          /\ WantsEstimate(flags.rounds, flags.duration)
                => /\ Len(PhaseCalls("estimate")) = 2
                   /\ ParseDuration(flags.duration).ok
    /\ ((err # Nil /\ err # NewError("write failed"))
            \/ (\E k \in 1..Len(calls) : calls[k].out.err # Nil))
          => outputWrites = <<>>
    /\ pc = "failed" => err # Nil

\* C11 witness: a duration-mode run has written its report
C11_Witness ==
    /\ pc = "done"
    /\ Len(outputWrites) = 1
    /\ Len(PhaseCalls("estimate")) = 2
    /\ cfgRounds = 2

\* C12: summarizeDebate issues one Generate call, with the Challenger's model
\* and the fixed instruction; its context is one system message holding, for
\* k = 1..N in ascending order, the header "### Round k" followed by the text
\* of the k-th Challenger call and then the text of the k-th Defender call of
\* the debate.
C12_SummaryInput ==
    /\ Len(SummaryCalls) <= 1
    /\ pc \in {"writeFile", "done"} => Len(SummaryCalls) = 1
    /\ \A s \in 1..Len(SummaryCalls) :
          LET c == SummaryCalls[s]
              ds == PhaseCalls("debate")
              text == c.context[1].Content
          IN  /\ c.args.model = ChallengerModel
              /\ IF variant = "split"
                 THEN c.args.system = <<SummarizeInstruction>>
                 ELSE c.args.prompt[1] = <<SummarizeInstruction>>
              /\ Len(c.context) = 1
              /\ c.context[1].Role = RoleSystem
              /\ Len(ds) = 2 * Len(text)
              /\ Len(text) = cfgRounds
              /\ \A k \in 1..Len(text) :
                    text[k] = <<"### Round", k, "Challenger:", ds[2 * k - 1].out.text,
                                "Defender:", ds[2 * k].out.text, "">>

\* C12 witness: the summary of a three-round debate whose rounds differ
C12_Witness ==
    /\ Len(SummaryCalls) = 1
    /\ cfgRounds = 3
    /\ Len(SummaryCalls[1].context[1].Content) = 3
    /\ ret.rounds[1] # ret.rounds[2]
    /\ ret.rounds[1].Challenger # ret.rounds[1].Defender

\* the context the code is expected to pass to the k-th call of a
\* runDebateFlow invocation whose calls are cs, built from the seed and the
\* turns of that invocation alone
ExpectedChallengerContext(cs, k) ==
    IF variant = "split"
    THEN <<claimEntry>> \o LastN(ProducedBefore(cs, k), Min(maxHistory, k - 1))
    ELSE trimHistory(<<claimEntry>> \o ProducedBefore(cs, k), maxHistory)

ExpectedContext(cs, k) ==
    IF k % 2 = 1
    THEN ExpectedChallengerContext(cs, k)
    ELSE ExpectedChallengerContext(cs, k - 1) \o <<TurnOf(cs[k - 1])>>

\* C13: in duration mode the trial is one Challenger call followed by one
\* Defender call; the debate that follows starts from the seed alone, so
\* every context of the debate, every returned round and the Summarizer's
\* input are built from the seed and the debate's own turns only, and a run
\* that ends successfully with estimate N has issued 2 + 2N + 1 calls.
C13_TrialDiscarded ==
    (entry = "runCLI" /\ WantsEstimate(flags.rounds, flags.duration)) =>
        LET es == PhaseCalls("estimate")
            ds == PhaseCalls("debate")
        IN  /\ Len(es) <= 2
            /\ \A k \in 1..Len(es) :
                  es[k].role = IF k = 1 THEN RoleChallenger ELSE RoleDefender
            /\ phase = "debate" =>
                  /\ Len(es) = 2
                  /\ \A k \in 1..2 : es[k].out.err = Nil
                  /\ Len(calls) >= 2 /\ SubSeq(calls, 1, 2) = es
            /\ \A k \in 1..Len(ds) : ds[k].context = ExpectedContext(ds, k)
            /\ (variant = "split" /\ Len(ds) >= 1) => ds[1].context = <<claimEntry>>
            /\ (phase = "debate" /\ pc \in {"debateReturn", "summarize", "writeFile", "done"}
                  /\ ret.err = Nil)
                  => ret.rounds = [k \in 1..cfgRounds |->
                                     DebateRound(ds[2 * k - 1].out.text, ds[2 * k].out.text)]
            /\ \A s \in 1..Len(SummaryCalls) :
                  SummaryCalls[s].context[1].Content = SummaryText(
                      [k \in 1..(Len(ds) \div 2) |->
                          DebateRound(ds[2 * k - 1].out.text, ds[2 * k].out.text)])
            /\ pc = "done" => Len(calls) = 2 + 2 * cfgRounds + 1

\* C13 witness: a duration-mode run with estimate 2 has finished, and its
\* trial round's turns differ from the first round's turns of the debate
C13_Witness ==
    /\ entry = "runCLI"
    /\ WantsEstimate(flags.rounds, flags.duration)
    /\ pc = "done"
    /\ cfgRounds = 2
    /\ Len(calls) = 7
    /\ calls[1].out.text # calls[3].out.text
    /\ calls[2].out.text # calls[4].out.text

\* C14: for a well-formed budget and a measured trial time t1 > 0,
\* estimateRounds returns max(1, floor(budget / t1)): 6 for 2m and 20s, and 1
\* for every budget smaller than t1, zero and negative budgets included.
C14_EstimateIsClampedFloor ==
    (pc = "startDebate" /\ elapsed > 0) =>
        LET budget == ParseDuration(flags.duration).ms IN
        /\ ParseDuration(flags.duration).ok
        /\ cfgRounds = Max(1, budget \div elapsed)
        /\ (flags.duration = "2m" /\ elapsed = 20000) => cfgRounds = 6
        /\ budget < elapsed => cfgRounds = 1

\* C14 witness: estimateRounds has returned for a negative budget
C14_Witness ==
    /\ pc = "startDebate"
    /\ elapsed = 50000
    /\ flags.duration = "-1m"
    /\ cfgRounds = 1

\* C15 (as claimed): with --rounds <= 0 and no --duration, runCLI never gets
\* past the debate loop without a failure: it reaches neither the Summarizer
\* nor the output file.
C15_UnboundedWithoutFlags ==
    (entry = "runCLI" /\ flags.rounds <= 0 /\ flags.duration = "") =>
        /\ pc \notin {"summarize", "writeFile", "done"}
        /\ pc = "debateReturn" => ret.err # Nil
        /\ SummaryCalls = <<>>
        /\ outputWrites = <<>>

\* C16: trimHistory returns a contiguous run of its argument, in the same
\* order, and applying it again with the same max returns the same slice.
C16_TrimIdempotent ==
    /\ trimOut.done =>
          \E s \in 0..Len(trimIn) :
              /\ s + Len(trimOut.result) <= Len(trimIn)
              /\ trimOut.result = SubSeq(trimIn, s + 1, s + Len(trimOut.result))
    /\ trimOut.twice => trimOut.again = trimOut.result

\* C16 witness: a slice of three messages, not all alike, trimmed to one and
\* trimmed again
C16_Witness ==
    /\ trimOut.twice
    /\ Len(trimIn) = 3
    /\ trimMax = 1
    /\ Len(trimOut.result) = 1
    /\ trimIn[1] # trimIn[3]

\* C17 (as claimed): trimming a history that starts with the seed and holds
\* at least one more turn with maxLen <= 1 yields the seed turn alone.
C17_TrimToSeedAlone ==
    (/\ trimOut.done
     /\ trimMax <= 1
     /\ Len(trimIn) >= 2
     /\ trimIn[1] = claimEntry)
        => trimOut.result = <<claimEntry>>

\* the model and the prompt configured for a debate role
ModelOf(role) == IF role = RoleChallenger THEN ChallengerModel ELSE DefenderModel

PromptOf(role) == IF role = RoleChallenger THEN ChalPrompt ELSE DefPrompt

\* C18: in part_000 every Challenger or Defender call passes the role's
\* model, the instruction (role, then the role's prompt) as the system field,
\* and as the prompt field one "<role>: <content>" line per context turn, in
\* the order of the context; the two fields are separate.
C18_CallArguments ==
    variant = "split" =>
        \A k \in 1..Len(calls) :
            LET c == calls[k] IN
            c.role \in {RoleChallenger, RoleDefender} =>
                /\ c.args.model = ModelOf(c.role)
                /\ c.args.system = <<c.role, PromptOf(c.role)>>
                /\ Len(c.args.prompt) = Len(c.context)
                /\ \A j \in 1..Len(c.context) :
                       c.args.prompt[j] = <<c.context[j].Role, c.context[j].Content>>

\* C18 witness: a Defender call of part_000 whose context holds the seed, an
\* earlier turn and the Challenger's turn of the same round
C18_Witness ==
    /\ variant = "split"
    /\ \E k \in 1..Len(calls) :
           /\ calls[k].role = RoleDefender
           /\ calls[k].round = 2
           /\ Len(calls[k].context) = 3
           /\ calls[k].context[2].Content # calls[k].context[3].Content

\* C19 (as claimed): in part_000 the stored history is never altered by the
\* trimmed view: after i completed rounds it is the seed followed by the
\* turns c1, d1, ..., ci, di that the calls produced.
C19_StoredHistoryUntouched ==
    (/\ variant = "split"
     /\ phase \in FlowPhases
     /\ pc \in {"loop", "challenger", "defender"}) =>
        history = <<claimEntry>> \o [j \in 1..(2 * i) |-> TurnOf(PhaseCalls(phase)[j])]

\* C20 (as claimed): in main.go, with MaxHistory >= 1, the seed is the first
\* turn of the context of every Challenger and Defender call.
C20_SeedNeverEvictedJoined ==
    (variant = "joined" /\ maxHistory >= 1) =>
        \A k \in 1..Len(calls) :
            calls[k].role \in {RoleChallenger, RoleDefender} =>
                /\ Len(calls[k].context) >= 1
                /\ calls[k].context[1] = claimEntry

\* a point of runDebateFlow, its return included
InFlow ==
    /\ phase \in FlowPhases
    /\ pc \in {"loop", "challenger", "defender", "estimateReturn", "debateReturn", "returned"}

\* the rounds recorded are the completed iterations of this invocation
RoundsAreCompleted ==
    InFlow =>
        LET cs == PhaseCalls(phase) IN
        /\ Len(rounds) = Cardinality({j \in 1..Len(cs) : 2 * j <= Len(cs) /\ cs[2 * j].out.err = Nil})
        /\ \A j \in 1..Len(rounds) :
               /\ 2 * j <= Len(cs)
               /\ cs[2 * j - 1].role = RoleChallenger /\ cs[2 * j - 1].out.err = Nil
               /\ cs[2 * j].role = RoleDefender /\ cs[2 * j].out.err = Nil
               /\ rounds[j].Challenger = cs[2 * j - 1].out.text
               /\ rounds[j].Defender = cs[2 * j].out.text

\* within one invocation the recorded rounds only grow, by one entry, and
\* only when a Defender call has succeeded
RoundsOnlyAppended ==
    (InFlow /\ phase' = phase) =>
        /\ Len(rounds') >= Len(rounds)
        /\ SubSeq(rounds', 1, Len(rounds)) = rounds
        /\ rounds' # rounds =>
              /\ pc = "defender"
              /\ Len(rounds') = Len(rounds) + 1
              /\ calls'[Len(calls')].role = RoleDefender
              /\ calls'[Len(calls')].out.err = Nil

\* C21: at every point of runDebateFlow the recorded rounds are exactly the
\* completed iterations, round j pairing the texts of the j-th Challenger and
\* the j-th Defender call; an entry is appended only after both calls
\* succeeded and is never changed or removed afterwards.
C21_RoundsAreCompletedIterations ==
    []RoundsAreCompleted /\ [][RoundsOnlyAppended]_vars

\* C21 witness: two rounds with different texts are recorded and the third
\* iteration has failed at its Defender call
C21_Witness ==
    /\ InFlow
    /\ Len(rounds) = 2
    /\ rounds[1] # rounds[2]
    /\ rounds[1].Challenger # rounds[1].Defender
    /\ Len(PhaseCalls(phase)) = 6
    /\ PhaseCalls(phase)[6].out.err # Nil

====
